---- MODULE Spec2Model ----
(***************************************************************************)
(* State-machine model of the video narration pipeline:                    *)
(*   scene.ts        detectSceneChanges, extractFrames                     *)
(*   description.ts  describeScene, describeAllScenes                      *)
(*   pipeline.ts     main (orchestrator)                                   *)
(* Text is a sequence of one-character strings; numbers are integers with  *)
(* three distinguished values for NaN, +Infinity and -Infinity.            *)
(***************************************************************************)
EXTENDS Integers, Sequences, FiniteSets, TLC

VARIABLES
    changeAnswer,    \* answer to the scene-change prompt
    durationAnswer,  \* answer to the total-duration prompt
    interval,        \* sampling interval handed to the stages
    pc,              \* where main is
    err,             \* the error main has caught, "none" if none
    scenes,          \* result of detectSceneChanges
    exScene,         \* extractFrames: outer loop variable i
    exT,             \* extractFrames: inner loop variable t
    exIndex,         \* extractFrames: inner loop variable index
    files,           \* frame files on disk, as <<framePath, index>>
    batch,           \* what the batch description request came back with
    dsI,             \* describeAllScenes: fallback loop variable i
    descriptions,    \* describeAllScenes: the list it builds and returns
    events,          \* history of captures, calls, requests and delays
    sbatch,          \* generateAllScripts: what the batch request came back with
    gsI,             \* generateAllScripts: fallback loop variable i
    scripts,         \* generateAllScripts: the per-scene scripts collected
    scriptResult,    \* the CombinedScript returned to main
    context,         \* generateScriptForScene: the scripts of its latest narrativeContext
    pairs,           \* generateAllScripts: <<i, descriptions[i].sceneIndex>> per batch header
    dpc,             \* where generateTimedScriptFromVideo is
    denv,            \* its environment: API key set, video file present
    attempt,         \* waitUntilFileReady: loop variable attempt
    polls,           \* number of status queries issued so far
    lastState,       \* waitUntilFileReady: state of the last status query
    onlyProcessing,  \* every status query so far reported PROCESSING
    tryErr,          \* the error caught by the catch of the direct pipeline
    dErr,            \* the error raised to the caller of the direct pipeline
    dEvents,         \* history of the remote calls of the direct pipeline
    dResp,           \* the generation response last handed to parseJsonResponse
    dResult          \* the TimedScriptResult returned

inputVars == <<changeAnswer, durationAnswer, interval>>
extractVars == <<exScene, exT, exIndex, files>>
describeVars == <<batch, dsI, descriptions>>
scriptVars == <<sbatch, gsI, scripts, scriptResult, context, pairs>>
directVars == <<dpc, denv, attempt, polls, lastState, onlyProcessing, tryErr,
                dErr, dEvents, dResp, dResult>>
vars == <<changeAnswer, durationAnswer, interval, pc, err, scenes,
          exScene, exT, exIndex, files, batch, dsI, descriptions, events,
          sbatch, gsI, scripts, scriptResult, context, pairs,
          dpc, denv, attempt, polls, lastState, onlyProcessing, tryErr, dErr,
          dEvents, dResp, dResult>>

(* ---------------------------- bounds ----------------------------------- *)
MaxCand == 4
MaxInterval == 2

(* ------------------------- JavaScript numbers -------------------------- *)
Infinity == 1000000
NegInfinity == 0 - Infinity
NaN == NegInfinity - 1

NumberIsNaN(x) == x = NaN
IsFinite(x) == x # NaN /\ x # Infinity /\ x # NegInfinity

\* JavaScript relational operators: any comparison with NaN is false
Lt(a, b) == a # NaN /\ b # NaN /\ a < b
Le(a, b) == a # NaN /\ b # NaN /\ a <= b

\* JavaScript a - b
Sub(a, b) ==
    IF a = NaN \/ b = NaN THEN NaN
    ELSE IF a = Infinity THEN (IF b = Infinity THEN NaN ELSE Infinity)
    ELSE IF a = NegInfinity THEN (IF b = NegInfinity THEN NaN ELSE NegInfinity)
    ELSE IF b = Infinity THEN NegInfinity
    ELSE IF b = NegInfinity THEN Infinity
    ELSE a - b

(* ------------------------------ text ----------------------------------- *)
Digits == {"0", "1", "2", "3", "4", "5", "6", "7", "8", "9"}
DigitVal == ("0" :> 0) @@ ("1" :> 1) @@ ("2" :> 2) @@ ("3" :> 3) @@ ("4" :> 4)
            @@ ("5" :> 5) @@ ("6" :> 6) @@ ("7" :> 7) @@ ("8" :> 8) @@ ("9" :> 9)
InfinityLit == <<"I", "n", "f", "i", "n", "i", "t", "y">>

StartsWith(s, p) == Len(s) >= Len(p) /\ SubSeq(s, 1, Len(p)) = p

RECURSIVE TrimStart(_)
TrimStart(s) == IF s # <<>> /\ Head(s) = " " THEN TrimStart(Tail(s)) ELSE s

RECURSIVE TrimEnd(_)
TrimEnd(s) ==
    IF s # <<>> /\ s[Len(s)] = " " THEN TrimEnd(SubSeq(s, 1, Len(s) - 1)) ELSE s

\* String.prototype.trim
Trim(s) == TrimEnd(TrimStart(s))

\* String.prototype.split(','): the pieces between the commas, "" gives [""]
RECURSIVE SplitAcc(_, _, _)
SplitAcc(s, cur, acc) ==
    IF s = <<>> THEN Append(acc, cur)
    ELSE IF Head(s) = "," THEN SplitAcc(Tail(s), <<>>, Append(acc, cur))
    ELSE SplitAcc(Tail(s), Append(cur, Head(s)), acc)

SplitComma(s) == SplitAcc(s, <<>>, <<>>)

\* value of the longest prefix of decimal digits, NaN when there is none
RECURSIVE DigitsAcc(_, _, _)
DigitsAcc(s, acc, seen) ==
    IF s # <<>> /\ Head(s) \in Digits
    THEN DigitsAcc(Tail(s), 10 * acc + DigitVal[Head(s)], TRUE)
    ELSE IF seen THEN acc ELSE NaN

\* parseFloat: skip leading blanks, optional sign, "Infinity" or digits,
\* trailing text ignored (inputs here carry no '.', 'e' or '+')
parseFloat(s) ==
    LET t == TrimStart(s)
        neg == t # <<>> /\ Head(t) = "-"
        body == IF neg THEN Tail(t) ELSE t
        mag == IF StartsWith(body, InfinityLit) THEN Infinity
               ELSE DigitsAcc(body, 0, FALSE)
    IN  IF mag = NaN THEN NaN
        ELSE IF neg THEN 0 - mag
        ELSE mag

(* ------------------------- detectSceneChanges -------------------------- *)
\* the duration check of detectSceneChanges
InvalidDuration(totalDuration) ==
    NumberIsNaN(totalDuration) \/ Le(totalDuration, 0)

KeepChangeTimeNoLower(time, totalDuration) ==
    ~NumberIsNaN(time) /\ Lt(time, totalDuration)

KeepChangeTimeNoUpper(time, totalDuration) ==
    ~NumberIsNaN(time) /\ Lt(0, time)

KeepChangeTime(time, totalDuration) ==
    ~NumberIsNaN(time) /\ Lt(0, time) /\ Lt(time, totalDuration)

RECURSIVE FilterTimes(_, _)
FilterTimes(times, totalDuration) ==
    IF times = <<>> THEN <<>>
    ELSE IF KeepChangeTime(Head(times), totalDuration)
         THEN <<Head(times)>> \o FilterTimes(Tail(times), totalDuration)
         ELSE FilterTimes(Tail(times), totalDuration)

ParseTime(time) == parseFloat(Trim(time))

ChangeTimes(answer, totalDuration) ==
    LET toks == SplitComma(answer)
    IN  FilterTimes([k \in 1..Len(toks) |-> ParseTime(toks[k])], totalDuration)

\* Array.from(new Set(a)): first occurrences, in insertion order
RECURSIVE DedupAcc(_, _)
DedupAcc(s, acc) ==
    IF s = <<>> THEN acc
    ELSE IF \E k \in 1..Len(acc) : acc[k] = Head(s)
         THEN DedupAcc(Tail(s), acc)
         ELSE DedupAcc(Tail(s), Append(acc, Head(s)))

NoDedup(s) == s
Dedup(s) == DedupAcc(s, <<>>)

\* Array.prototype.sort((a, b) => a - b)
RECURSIVE Insert(_, _)
Insert(x, s) ==
    IF s = <<>> THEN <<x>>
    ELSE IF x < Head(s) THEN <<x>> \o s
    ELSE <<Head(s)>> \o Insert(x, Tail(s))

RECURSIVE SortAcc(_, _)
SortAcc(s, acc) == IF s = <<>> THEN acc ELSE SortAcc(Tail(s), Insert(Head(s), acc))

NoSort(s) == s
SortAsc(s) == SortAcc(s, <<>>)

Timestamps(changeTimes, totalDuration) ==
    <<0>> \o SortAsc(Dedup(changeTimes)) \o <<totalDuration>>

FramePathOf(i) == <<"scene_", i>>

\* the loop over consecutive boundary pairs; i is the 0-based pair index
RECURSIVE BuildScenes(_, _, _)
BuildScenes(timestamps, i, acc) ==
    IF i >= Len(timestamps) - 1 THEN acc
    ELSE LET start == timestamps[i + 1]
             end == timestamps[i + 2]
         IN  IF Le(end, start) THEN BuildScenes(timestamps, i + 1, acc)
             ELSE BuildScenes(timestamps, i + 1,
                     Append(acc, [startTime |-> start,
                                  endTime |-> end,
                                  duration |-> Sub(end, start),
                                  framePath |-> FramePathOf(i)]))

ScenesFor(answer, totalDuration) ==
    BuildScenes(Timestamps(ChangeTimes(answer, totalDuration), totalDuration), 0, <<>>)

TotalDuration == parseFloat(Trim(durationAnswer))

\* detectSceneChanges as called by main: both answers are read, then the
\* scenes are returned or the error is raised to main
DetectSceneChanges ==
    /\ pc = "detect"
    /\ IF InvalidDuration(TotalDuration)
       THEN /\ err' = "InvalidDuration"
            /\ scenes' = <<>>
            /\ pc' = "failed"
       ELSE LET result == ScenesFor(changeAnswer, TotalDuration)
            IN  IF Len(result) = 0
                THEN /\ err' = "NoScenes"
                     /\ scenes' = <<>>
                     /\ pc' = "failed"
                ELSE /\ err' = "none"
                     /\ scenes' = result
                     /\ pc' = "extract"
    /\ UNCHANGED <<inputVars, extractVars, describeVars, events, scriptVars, directVars>>

(* ------------------------------ inputs --------------------------------- *)
RECURSIVE JoinComma(_)
JoinComma(toks) ==
    IF toks = <<>> THEN <<>>
    ELSE IF Len(toks) = 1 THEN toks[1]
    ELSE toks[1] \o <<",">> \o JoinComma(Tail(toks))

CandTokens ==
    { <<"5">>, <<"2">>, <<"3", "0">>, <<"x">>, <<"-", "2">>, <<"0">>, <<" ", "3">> }

DurTokens ==
    { <<"3", "0">>, <<" ", "5", " ">>, <<"0">>, <<"-", "2">>, <<"x">>, <<>>,
      InfinityLit, <<"7", "x">> }

TokenLists(tokens, n) == UNION { [1..k -> tokens] : k \in 0..n }

NoBatch == [kind |-> "none", isArray |-> FALSE, items |-> <<>>]

\* generateAllScripts has not been called, or has not returned
NoScriptBatch == [kind |-> "none", isNull |-> FALSE, valid |-> FALSE]
NoResult == [kind |-> "none", valid |-> FALSE, script |-> <<>>,
             totalEstimatedWords |-> 0, emphasis |-> <<>>]

\* generateTimedScriptFromVideo has not been called
NoTimedResponse == [kind |-> "none", isNull |-> FALSE, isArray |-> FALSE,
                    total |-> 0, segments |-> <<>>]
NoTimedResult == [returned |-> FALSE, totalDurationSec |-> 0, segments |-> <<>>]

DirectIdle ==
    /\ dpc = "idle"
    /\ denv = [key |-> TRUE, video |-> TRUE]
    /\ attempt = 0
    /\ polls = 0
    /\ lastState = "none"
    /\ onlyProcessing = TRUE
    /\ tryErr = "none"
    /\ dErr = "none"
    /\ dEvents = <<>>
    /\ dResp = NoTimedResponse
    /\ dResult = NoTimedResult

InitRest ==
    /\ pc = "detect"
    /\ err = "none"
    /\ scenes = <<>>
    /\ exScene = 0
    /\ exT = 0
    /\ exIndex = 0
    /\ files = {}
    /\ batch = NoBatch
    /\ dsI = 0
    /\ descriptions = <<>>
    /\ events = <<>>
    /\ sbatch = NoScriptBatch
    /\ gsI = 0
    /\ scripts = <<>>
    /\ scriptResult = NoResult
    /\ context = <<>>
    /\ pairs = <<>>

InitSeg ==
    /\ changeAnswer \in { JoinComma(toks) : toks \in TokenLists(CandTokens, MaxCand) }
    /\ durationAnswer \in DurTokens
    /\ interval \in 1..MaxInterval
    /\ InitRest
    /\ DirectIdle

NextSeg == DetectSceneChanges

SpecSeg == InitSeg /\ [][NextSeg]_vars

(* --------------------------- history ----------------------------------- *)
\* one entry per capture request, describeScene call, generation request
\* and rate-limit delay, in the order main's single thread performs them
Event(op, scene, index, time, frames, ok) ==
    [op |-> op, scene |-> scene, index |-> index, time |-> time,
     frames |-> frames, ok |-> ok]

(* --------------------------- extractFrames ----------------------------- *)
\* what one ffmpeg invocation can do: write the frame, exit normally
\* without writing it, or exit with an error (execPromise rejects)
CaptureOutcomes == {"written", "missing", "rejected"}

InnerLoopCondInclusive(t, scene) == Le(t, scene.endTime)
InnerLoopCond(t, scene) == Lt(t, scene.endTime)

Min(a, b) == IF a <= b THEN a ELSE b

\* for (let i = 0; i < scenes.length; i++) { scene = scenes[i]; index = 0;
\*   t = scene.startTime
ExtractSceneBegin ==
    /\ pc = "extract"
    /\ exScene < Len(scenes)
    /\ exIndex' = 0
    /\ exT' = scenes[exScene + 1].startTime
    /\ pc' = "extractInner"
    /\ UNCHANGED <<inputVars, err, scenes, exScene, files, describeVars, events, scriptVars, directVars>>

\* one pass of the inner loop: a capture request, then index++, t += interval
ExtractFrame ==
    /\ pc = "extractInner"
    /\ InnerLoopCond(exT, scenes[exScene + 1])
    /\ LET scene == scenes[exScene + 1]
           time == Min(exT, scene.endTime)
           key == <<scene.framePath, exIndex>>
       IN  /\ events' = Append(events,
                            Event("capture", exScene, exIndex, time, <<>>, TRUE))
           /\ \E outcome \in CaptureOutcomes :
                 IF outcome = "rejected"
                 THEN /\ err' = "CaptureFailed"
                      /\ pc' = "failed"
                      /\ UNCHANGED <<files, exIndex, exT>>
                 ELSE /\ files' = IF outcome = "written"
                                  THEN files \cup {key} ELSE files
                      /\ exIndex' = exIndex + 1
                      /\ exT' = exT + interval
                      /\ UNCHANGED <<err, pc>>
    /\ UNCHANGED <<inputVars, scenes, exScene, describeVars, scriptVars, directVars>>

\* the inner loop ends: the scene is logged and the outer loop goes on
ExtractSceneEnd ==
    /\ pc = "extractInner"
    /\ ~InnerLoopCond(exT, scenes[exScene + 1])
    /\ exScene' = exScene + 1
    /\ pc' = "extract"
    /\ UNCHANGED <<inputVars, err, scenes, exT, exIndex, files, describeVars, events, scriptVars, directVars>>

\* extractFrames returns and main goes on to describeAllScenes
ExtractReturnEarly ==
    /\ pc = "extract"
    /\ pc' = "describe"
    /\ UNCHANGED <<inputVars, err, scenes, extractVars, describeVars, events, scriptVars, directVars>>

ExtractReturn ==
    /\ pc = "extract"
    /\ exScene >= Len(scenes)
    /\ pc' = "describe"
    /\ UNCHANGED <<inputVars, err, scenes, extractVars, describeVars, events, scriptVars, directVars>>

(* ----------------------------- description ----------------------------- *)
\* Math.ceil(scene.duration / interval)
FrameCount(scene, d) ==
    IF scene.duration = Infinity THEN Infinity
    ELSE (scene.duration + d - 1) \div d

\* the indices j < frameCount whose file exists, ascending
RECURSIVE ExistingUpTo(_, _, _)
ExistingUpTo(scene, j, n) ==
    IF j >= n THEN <<>>
    ELSE IF <<scene.framePath, j>> \in files
         THEN <<j>> \o ExistingUpTo(scene, j + 1, n)
         ELSE ExistingUpTo(scene, j + 1, n)

\* the frame list built in describeScene, describeAllScenes and the script
\* stage: for (j = 0; j < frameCount; j++) if (fs.existsSync(framePath)) push
ExistingFramesUnchecked(scene) ==
    [k \in 1..FrameCount(scene, interval) |-> k - 1]

ExistingFrames(scene) == ExistingUpTo(scene, 0, FrameCount(scene, interval))

\* a JSON value of a response, as far as the code looks at it: null or
\* not, and for each list field whether it is an array, absent (or
\* another falsy value), or a truthy value that is no array
ListKinds == {"array", "absent", "scalar"}
JsonNull == [isNull |-> TRUE, visualElements |-> "absent",
             keyPeople |-> "absent", specificActions |-> "absent"]
JsonObject(v, k, a) == [isNull |-> FALSE, visualElements |-> v,
                        keyPeople |-> k, specificActions |-> a]
ResponseEntries ==
    { JsonNull,
      JsonObject("array", "array", "array"),
      JsonObject("absent", "absent", "absent"),
      JsonObject("array", "absent", "scalar") }

\* x || []
OrEmptyArrayMissing(kind) == kind
OrEmptyArray(kind) == IF kind = "absent" THEN "array" ELSE kind

\* x || 0 on a number
OrZero(x) == IF x = NaN \/ x = 0 THEN 0 ELSE x

\* the object literal built from a parsed value and the timing given
Description(sceneIndex, startTime, endTime, duration, parsed) ==
    [sceneIndex |-> sceneIndex, startTime |-> startTime, endTime |-> endTime,
     duration |-> duration,
     visualElements |-> OrEmptyArray(parsed.visualElements),
     keyPeople |-> OrEmptyArray(parsed.keyPeople),
     specificActions |-> OrEmptyArray(parsed.specificActions)]

\* outcomes of one generation request: the request is rejected, the text
\* is no JSON, or the text is a JSON value (an array of items or not)
MaxEntries == 3

BatchResponses ==
    { [kind |-> "rejected", isArray |-> FALSE, items |-> <<>>],
      [kind |-> "malformed", isArray |-> FALSE, items |-> <<>>],
      [kind |-> "json", isArray |-> FALSE, items |-> <<>>] }
    \cup { [kind |-> "json", isArray |-> TRUE, items |-> it] :
             it \in TokenLists(ResponseEntries, MaxEntries) }

\* parsed.map(...): entry i of the response becomes description i, timing
\* taken from scenes[i] when there is one
BatchDescriptions(items) ==
    [k \in 1..Len(items) |->
        IF k <= Len(scenes)
        THEN Description(k - 1, OrZero(scenes[k].startTime),
                         OrZero(scenes[k].endTime), OrZero(scenes[k].duration),
                         items[k])
        ELSE Description(k - 1, 0, 0, 0, items[k])]

\* desc.x.join(", ") raises unless x is an array
JoinThrows(kind) == kind # "array"

\* the try block of describeAllScenes raises
BatchThrows(resp) ==
    \/ resp.kind # "json"
    \/ ~resp.isArray
    \/ \E k \in 1..Len(resp.items) : resp.items[k].isNull
    \/ \E k \in 1..Len(resp.items) :
          LET d == BatchDescriptions(resp.items)[k]
          IN  \/ JoinThrows(d.visualElements)
              \/ JoinThrows(d.keyPeople)
              \/ JoinThrows(d.specificActions)

AllFrames ==
    [k \in 1..Len(scenes) |-> ExistingFrames(scenes[k])]

RECURSIVE Flatten(_)
Flatten(ss) == IF ss = <<>> THEN <<>> ELSE Head(ss) \o Flatten(Tail(ss))

\* describeAllScenes up to the end of its try block: the batch request is
\* assembled (one header per scene, its index field counts them) and sent; the descriptions are returned, or the catch block
\* starts the per-scene loop
DescribeBatch ==
    /\ pc = "describe"
    /\ events' = Append(events,
                    Event("generate", -1, Len(scenes), -1, Flatten(AllFrames), TRUE))
    /\ \E resp \in BatchResponses :
          /\ batch' = resp
          /\ IF BatchThrows(resp)
             THEN /\ descriptions' = <<>>
                  /\ dsI' = 0
                  /\ pc' = "describeFallback"
             ELSE /\ descriptions' = BatchDescriptions(resp.items)
                  /\ dsI' = 0
                  /\ pc' = "script"
    /\ UNCHANGED <<inputVars, err, scenes, extractVars, scriptVars, directVars>>

\* outcomes of the generation request of describeScene
SceneResponses ==
    { [kind |-> "rejected", value |-> JsonNull],
      [kind |-> "malformed", value |-> JsonNull] }
    \cup { [kind |-> "json", value |-> v] : v \in ResponseEntries }

\* describeScene raises after its request
SceneResponseThrows(resp) == resp.kind # "json" \/ resp.value.isNull

\* the loop variable after the catch block of the fallback loop
AfterSceneErrorBreak(i) == Len(scenes)
AfterSceneError(i) == i + 1

\* one pass of the fallback loop: describeScene(i, scene, ...) is called;
\* without frames it raises before any request; a returned description is
\* pushed and the 1000 ms delay follows; an error is logged
DescribeSceneFallback ==
    /\ pc = "describeFallback"
    /\ dsI < Len(scenes)
    /\ LET scene == scenes[dsI + 1]
           frames == ExistingFrames(scene)
           call(ok) == Event("describeScene", dsI, -1, -1, frames, ok)
           request == Event("generate", dsI, -1, -1, frames, TRUE)
           sleep == Event("sleep", dsI, -1, -1, <<>>, TRUE)
       IN  IF Len(frames) = 0
           THEN /\ events' = events \o <<call(FALSE)>>
                /\ dsI' = AfterSceneError(dsI)
                /\ UNCHANGED descriptions
           ELSE \E resp \in SceneResponses :
                   IF SceneResponseThrows(resp)
                   THEN /\ events' = events \o <<call(FALSE), request>>
                        /\ dsI' = AfterSceneError(dsI)
                        /\ UNCHANGED descriptions
                   ELSE /\ events' = events \o <<call(TRUE), request, sleep>>
                        /\ descriptions' =
                              Append(descriptions,
                                     Description(dsI, scene.startTime, scene.endTime,
                                                 scene.duration, resp.value))
                        /\ dsI' = dsI + 1
    /\ UNCHANGED <<inputVars, pc, err, scenes, extractVars, batch, scriptVars, directVars>>

\* the fallback loop ends and describeAllScenes returns its list
DescribeFallbackReturn ==
    /\ pc = "describeFallback"
    /\ dsI >= Len(scenes)
    /\ pc' = "script"
    /\ UNCHANGED <<inputVars, err, scenes, extractVars, describeVars, events, scriptVars, directVars>>

(* ------------------------------- scripts ------------------------------- *)
\* outcomes of the batch request of generateAllScripts: rejected, no JSON,
\* JSON null, a JSON value with script, totalEstimatedWords and pacing as
\* the schema wants them (valid), or any other JSON value
ScriptBatchResponses ==
    { [kind |-> "rejected", isNull |-> FALSE, valid |-> FALSE],
      [kind |-> "malformed", isNull |-> FALSE, valid |-> FALSE],
      [kind |-> "json", isNull |-> TRUE, valid |-> FALSE],
      [kind |-> "json", isNull |-> FALSE, valid |-> TRUE],
      [kind |-> "json", isNull |-> FALSE, valid |-> FALSE] }

\* the try block of generateAllScripts raises: only the request, JSON.parse
\* and the property reads on the parsed value can
ScriptBatchThrows(resp) == resp.kind # "json" \/ resp.isNull

\* the descriptions generateAllScripts pairs with a scene: descriptions[i]
\* with scenes[i], skipped when scenes[i] is undefined
PairedCount == Min(Len(descriptions), Len(scenes))

\* desc.keyPeople.join, desc.specificActions.join, desc.visualElements.join
DescriptionJoinThrows(desc) ==
    \/ JoinThrows(desc.keyPeople)
    \/ JoinThrows(desc.specificActions)
    \/ JoinThrows(desc.visualElements)

\* building the parts of the batch request raises (outside the try block)
ScriptAssemblyThrows ==
    \E k \in 1..PairedCount : DescriptionJoinThrows(descriptions[k])

ScriptBatchFrames ==
    Flatten([k \in 1..PairedCount |-> ExistingFrames(scenes[k])])

\* generateAllScripts up to the end of its try block; the locals of
\* describeAllScenes are gone by now
ScriptBatch ==
    /\ pc = "script"
    /\ batch' = NoBatch
    /\ dsI' = 0
    /\ IF ScriptAssemblyThrows
       THEN /\ err' = "ScriptAssembly"
            /\ pc' = "failed"
            /\ UNCHANGED <<events, scriptVars>>
       ELSE /\ events' = Append(events,
                            Event("scriptBatch", -1, -1, -1, ScriptBatchFrames, TRUE))
            /\ \E resp \in ScriptBatchResponses :
                  /\ sbatch' = resp
                  /\ IF ScriptBatchThrows(resp)
                     THEN /\ pc' = "scriptFallback"
                          /\ UNCHANGED scriptResult
                     ELSE /\ pc' = "done"
                          /\ scriptResult' =
                                [kind |-> "batch", valid |-> resp.valid,
                                 script |-> <<>>, totalEstimatedWords |-> 0,
                                 emphasis |-> <<>>]
            /\ gsI' = 0
            /\ scripts' = <<>>
            /\ context' = <<>>
            /\ pairs' = [k \in 1..PairedCount |-> <<k - 1, descriptions[k].sceneIndex>>]
            /\ UNCHANGED err
    /\ UNCHANGED <<inputVars, scenes, extractVars, descriptions, directVars>>

\* JSON values of a per-scene script response: null, or an object with its
\* script text, estimatedWords (a number, or absent) and emphasis (a list,
\* or absent)
ScriptNull == [isNull |-> TRUE, script |-> "", hasWords |-> FALSE,
               estimatedWords |-> 0, hasEmphasis |-> FALSE, emphasis |-> <<>>]
SceneScriptValues ==
    { ScriptNull,
      [isNull |-> FALSE, script |-> "a", hasWords |-> TRUE, estimatedWords |-> 2,
       hasEmphasis |-> TRUE, emphasis |-> <<"e1">>],
      [isNull |-> FALSE, script |-> "b", hasWords |-> TRUE, estimatedWords |-> 9,
       hasEmphasis |-> FALSE, emphasis |-> <<>>],
      [isNull |-> FALSE, script |-> "c", hasWords |-> FALSE, estimatedWords |-> 0,
       hasEmphasis |-> TRUE, emphasis |-> <<"e2", "e3">>] }

SceneScriptResponses ==
    { [kind |-> "rejected", value |-> ScriptNull],
      [kind |-> "malformed", value |-> ScriptNull] }
    \cup { [kind |-> "json", value |-> v] : v \in SceneScriptValues }

\* generateScriptForScene raises after its request
SceneScriptThrows(resp) == resp.kind # "json" \/ resp.value.isNull

\* the object literal generateScriptForScene returns
VoiceoverScript(description, parsed) ==
    [sceneIndex |-> description.sceneIndex,
     startTime |-> description.startTime,
     endTime |-> description.endTime,
     duration |-> description.duration,
     script |-> parsed.script,
     hasWords |-> parsed.hasWords,
     estimatedWords |-> parsed.estimatedWords,
     hasEmphasis |-> parsed.hasEmphasis,
     emphasis |-> parsed.emphasis]

\* script.estimatedWords / script.duration > 2.5 (undefined / d is NaN)
TooLongPerSecond(script) ==
    script.hasWords /\ script.estimatedWords > script.duration

TooLong(script) ==
    script.hasWords /\ 2 * script.estimatedWords > 5 * script.duration

\* previousScripts.slice(-2)
LastTwoAll(previousScripts) == previousScripts
LastTwo(previousScripts) ==
    SubSeq(previousScripts,
           IF Len(previousScripts) > 2 THEN Len(previousScripts) - 1 ELSE 1,
           Len(previousScripts))

\* one pass of the fallback loop of generateAllScripts:
\* generateScriptForScene(scenes[i], descriptions[i], topic, scripts, interval)
\* raises on an undefined scene or a list field without join before any
\* request; a returned script is pushed, checked against the rate ceiling
\* and followed by the 1000 ms delay; an error is logged
ScriptSceneFallback ==
    /\ pc = "scriptFallback"
    /\ gsI < Len(descriptions)
    /\ LET desc == descriptions[gsI + 1]
           hasScene == gsI < Len(scenes)
           frames == IF hasScene THEN ExistingFrames(scenes[gsI + 1]) ELSE <<>>
           call(ok) == Event("scriptScene", gsI, desc.sceneIndex, -1, frames, ok)
           request == Event("scriptGenerate", gsI, desc.sceneIndex, -1, frames, TRUE)
           warn == Event("warn", gsI, desc.sceneIndex, -1, <<>>, TRUE)
           sleep == Event("sleep", gsI, -1, -1, <<>>, TRUE)
       IN  IF ~hasScene \/ DescriptionJoinThrows(desc)
           THEN /\ events' = events \o <<call(FALSE)>>
                /\ context' = IF hasScene THEN LastTwo(scripts) ELSE context
                /\ UNCHANGED scripts
           ELSE /\ context' = LastTwo(scripts)
                /\ \E resp \in SceneScriptResponses :
                      IF SceneScriptThrows(resp)
                      THEN /\ events' = events \o <<call(FALSE), request>>
                           /\ UNCHANGED scripts
                      ELSE LET script == VoiceoverScript(desc, resp.value)
                           IN  /\ scripts' = Append(scripts, script)
                               /\ events' = events \o <<call(TRUE), request>>
                                     \o (IF TooLong(script) THEN <<warn>> ELSE <<>>)
                                     \o <<sleep>>
    /\ gsI' = gsI + 1
    /\ UNCHANGED <<inputVars, pc, err, scenes, extractVars, describeVars,
                   sbatch, scriptResult, pairs, directVars>>

\* scripts.sort((a, b) => a.sceneIndex - b.sceneIndex), stable
RECURSIVE InsertScript(_, _)
InsertScript(x, s) ==
    IF s = <<>> THEN <<x>>
    ELSE IF x.sceneIndex < Head(s).sceneIndex THEN <<x>> \o s
    ELSE <<Head(s)>> \o InsertScript(x, Tail(s))

RECURSIVE SortScriptsAcc(_, _)
SortScriptsAcc(s, acc) ==
    IF s = <<>> THEN acc ELSE SortScriptsAcc(Tail(s), InsertScript(Head(s), acc))

SortScripts(s) == SortScriptsAcc(s, <<>>)

\* s.estimatedWords || 0
WordsOrZeroMissing(script) == IF script.hasWords THEN script.estimatedWords ELSE NaN
WordsOrZero(script) == IF script.hasWords THEN script.estimatedWords ELSE 0

\* JavaScript a + b on numbers
Add(a, b) == IF a = NaN \/ b = NaN THEN NaN ELSE a + b

\* scripts.reduce((sum, s) => sum + (s.estimatedWords || 0), 0)
RECURSIVE ReduceWords(_, _)
ReduceWords(s, sum) ==
    IF s = <<>> THEN sum ELSE ReduceWords(Tail(s), Add(sum, WordsOrZero(Head(s))))

\* scripts.flatMap(s => s.emphasis || [])
FlatEmphasis(s) ==
    Flatten([k \in 1..Len(s) |-> IF s[k].hasEmphasis THEN s[k].emphasis ELSE <<>>])

\* scripts.map(s => s.script).join('\n\n'), as the list of the texts joined
JoinTexts(s) == [k \in 1..Len(s) |-> s[k].script]

\* the fallback loop ends: the scripts are sorted in place, merged and the
\* CombinedScript is returned to main
ScriptFallbackReturn ==
    /\ pc = "scriptFallback"
    /\ gsI >= Len(descriptions)
    /\ LET sorted == SortScripts(scripts)
       IN  /\ scripts' = sorted
           /\ scriptResult' =
                 [kind |-> "merged", valid |-> TRUE,
                  script |-> JoinTexts(sorted),
                  totalEstimatedWords |-> ReduceWords(sorted, 0),
                  emphasis |-> FlatEmphasis(sorted)]
    /\ pc' = "done"
    /\ UNCHANGED <<inputVars, err, scenes, extractVars, describeVars, events,
                   sbatch, gsI, context, pairs, directVars>>

(* ------------------------------- main ---------------------------------- *)
MaxPipeCand == 2

PipeCandTokens == { <<"1">>, <<"2">> }
PipeDurTokens == { <<"2">>, <<"3">>, <<"0">> }

Init ==
    /\ changeAnswer \in
          { JoinComma(toks) : toks \in TokenLists(PipeCandTokens, MaxPipeCand) }
    /\ durationAnswer \in PipeDurTokens
    /\ interval \in 1..MaxInterval
    /\ InitRest
    /\ DirectIdle

Next ==
    \/ DetectSceneChanges
    \/ ExtractSceneBegin
    \/ ExtractFrame
    \/ ExtractSceneEnd
    \/ ExtractReturn
    \/ DescribeBatch
    \/ DescribeSceneFallback
    \/ DescribeFallbackReturn
    \/ ScriptBatch
    \/ ScriptSceneFallback
    \/ ScriptFallbackReturn

Spec == Init /\ [][Next]_vars

(* -------------------- the script stage on longer runs ------------------ *)
\* generateAllScripts as main calls it after a run over ScriptSceneCount
\* scenes of one second each, every frame written: the list handed over is
\* what describeAllScenes returned, either one description per scene or
\* the shorter list its fallback loop leaves when scenes were skipped
ScriptSceneCount == 4

DigitChars == <<"0", "1", "2", "3", "4", "5", "6", "7", "8", "9">>
Digit(n) == <<DigitChars[n + 1]>>

ScriptChangeAnswer == JoinComma([k \in 1..ScriptSceneCount - 1 |-> Digit(k)])
ScriptScenes == ScenesFor(ScriptChangeAnswer, ScriptSceneCount)

\* the descriptions pushed by the fallback loop of describeAllScenes when
\* exactly the scenes at the positions in K were described
RECURSIVE DescribedFrom(_, _)
DescribedFrom(K, i) ==
    IF i >= Len(ScriptScenes) THEN <<>>
    ELSE IF i \in K
         THEN <<Description(i, ScriptScenes[i + 1].startTime,
                            ScriptScenes[i + 1].endTime,
                            ScriptScenes[i + 1].duration,
                            JsonObject("array", "array", "array"))>>
                 \o DescribedFrom(K, i + 1)
         ELSE DescribedFrom(K, i + 1)

InitScript ==
    /\ changeAnswer = ScriptChangeAnswer
    /\ durationAnswer = Digit(ScriptSceneCount)
    /\ interval = 1
    /\ pc = "script"
    /\ err = "none"
    /\ scenes = ScriptScenes
    /\ exScene = Len(ScriptScenes)
    /\ exT = ScriptSceneCount
    /\ exIndex = 1
    /\ files = { <<FramePathOf(i), 0>> : i \in 0..ScriptSceneCount - 1 }
    /\ batch = NoBatch
    /\ dsI = 0
    /\ \E K \in SUBSET (0..ScriptSceneCount - 1) : descriptions = DescribedFrom(K, 0)
    /\ events = <<>>
    /\ sbatch = NoScriptBatch
    /\ gsI = 0
    /\ scripts = <<>>
    /\ scriptResult = NoResult
    /\ context = <<>>
    /\ pairs = <<>>
    /\ DirectIdle

NextScript ==
    \/ ScriptBatch
    \/ ScriptSceneFallback
    \/ ScriptFallbackReturn

SpecScript == InitScript /\ [][NextScript]_vars

(* ------------------------- direct pipeline ----------------------------- *)
maxAttempts == 60

\* a JSON field that is absent, and one that holds a non-numeric string
Undefined == NaN - 1
NonNumeric == NaN - 2

\* Number(x || 0)
NumberOrZero(raw) ==
    IF raw = Undefined THEN 0
    ELSE IF raw = NonNumeric THEN NaN
    ELSE raw

\* String(x || "").trim(); an absent sentence is the empty text
TrimmedSentence(raw) == Trim(raw)

\* what the state field of a status query can hold: nothing, the three
\* values of the service, or any other value
PollStates == {"absent", "ACTIVE", "FAILED", "PROCESSING", "OTHER"}

\* attempt < maxAttempts
PollLoopCondInclusive(a) == a <= maxAttempts
PollLoopCond(a) == a < maxAttempts

\* !state || state === "ACTIVE"
StateIsReadyActiveOnly(state) == state = "ACTIVE"
StateIsReady(state) == state = "absent" \/ state = "ACTIVE"

\* where control goes when the try block raises: the bare catch takes
\* every error to the inline-bytes request
AfterTryErrorTimeoutRaises(e) == IF e = "Timeout" THEN "raised" ELSE "fallback"
AfterTryError(e) == "fallback"

\* the two guards before the try block
DirectStart ==
    /\ dpc = "start"
    /\ IF ~denv.key
       THEN dErr' = "NoApiKey" /\ dpc' = "raised"
       ELSE IF ~denv.video
       THEN dErr' = "VideoNotFound" /\ dpc' = "raised"
       ELSE dErr' = "none" /\ dpc' = "upload"
    /\ UNCHANGED <<inputVars, pc, err, scenes, extractVars, describeVars, events,
                   scriptVars, denv, attempt, polls, lastState, onlyProcessing,
                   tryErr, dEvents, dResp, dResult>>

\* fileManager.uploadFile and the metadata check
DirectUpload ==
    /\ dpc = "upload"
    /\ dEvents' = Append(dEvents, "upload")
    /\ \E outcome \in {"rejected", "incomplete", "ok"} :
          IF outcome = "rejected"
          THEN tryErr' = "UploadFailed" /\ dpc' = AfterTryError("UploadFailed")
          ELSE IF outcome = "incomplete"
          THEN tryErr' = "UploadIncomplete" /\ dpc' = AfterTryError("UploadIncomplete")
          ELSE tryErr' = "none" /\ dpc' = "poll"
    /\ attempt' = 0
    /\ UNCHANGED <<inputVars, pc, err, scenes, extractVars, describeVars, events,
                   scriptVars, denv, polls, lastState, onlyProcessing, dErr,
                   dResp, dResult>>

\* one pass of the loop of waitUntilFileReady: a status query, then return,
\* raise, or the 2000 ms delay and attempt++
DirectPoll ==
    /\ dpc = "poll"
    /\ PollLoopCond(attempt)
    /\ polls' = polls + 1
    /\ \/ /\ tryErr' = "PollRejected"
          /\ dpc' = AfterTryError("PollRejected")
          /\ UNCHANGED <<attempt, lastState, onlyProcessing>>
       \/ \E state \in PollStates :
             /\ lastState' = state
             /\ onlyProcessing' = (onlyProcessing /\ state = "PROCESSING")
             /\ IF StateIsReady(state)
                THEN dpc' = "generateRef" /\ UNCHANGED <<attempt, tryErr>>
                ELSE IF state = "FAILED"
                THEN /\ tryErr' = "ProcessingFailed"
                     /\ dpc' = AfterTryError("ProcessingFailed")
                     /\ UNCHANGED attempt
                ELSE /\ attempt' = attempt + 1
                     /\ UNCHANGED <<dpc, tryErr>>
    /\ UNCHANGED <<inputVars, pc, err, scenes, extractVars, describeVars, events,
                   scriptVars, denv, dErr, dEvents, dResp, dResult>>

\* the loop of waitUntilFileReady runs out of attempts
DirectPollTimeout ==
    /\ dpc = "poll"
    /\ ~PollLoopCond(attempt)
    /\ tryErr' = "Timeout"
    /\ dpc' = AfterTryError("Timeout")
    /\ UNCHANGED <<inputVars, pc, err, scenes, extractVars, describeVars, events,
                   scriptVars, denv, attempt, polls, lastState, onlyProcessing,
                   dErr, dEvents, dResp, dResult>>

(* parseJsonResponse *)
\* entries of the segments array: null, or an object with its fields as
\* they come (a number, Undefined or NonNumeric; the sentence as text)
SegmentNull == [isNull |-> TRUE, startSec |-> Undefined, endSec |-> Undefined,
                durationSec |-> Undefined, sentence |-> <<>>]
RawSegment(a, b, d, text) == [isNull |-> FALSE, startSec |-> a, endSec |-> b,
                              durationSec |-> d, sentence |-> text]
SegmentEntries ==
    { SegmentNull,
      RawSegment(0, 2, 2, <<"a">>),
      RawSegment(2, 5, 3, <<"b", " ">>),
      RawSegment(1, 3, 5, <<"c">>),
      RawSegment(3, 3, 0, <<"d">>),
      RawSegment(5, 7, 2, <<" ">>),
      RawSegment(0, NonNumeric, 2, <<"f">>),
      RawSegment(Undefined, 4, Undefined, <<"g">>) }

MaxSegs == 2

\* outcomes of a generation request of the direct pipeline
TimedResponses ==
    { [kind |-> "rejected", isNull |-> FALSE, isArray |-> FALSE,
       total |-> Undefined, segments |-> <<>>],
      [kind |-> "malformed", isNull |-> FALSE, isArray |-> FALSE,
       total |-> Undefined, segments |-> <<>>],
      [kind |-> "json", isNull |-> TRUE, isArray |-> FALSE,
       total |-> Undefined, segments |-> <<>>],
      [kind |-> "json", isNull |-> FALSE, isArray |-> FALSE,
       total |-> 7, segments |-> <<>>] }
    \cup { [kind |-> "json", isNull |-> FALSE, isArray |-> TRUE,
            total |-> t, segments |-> segs] :
             t \in {Undefined, 7}, segs \in TokenLists(SegmentEntries, MaxSegs) }

\* the object literal of the map callback
TimedSegment(s) ==
    [startSec |-> NumberOrZero(s.startSec),
     endSec |-> NumberOrZero(s.endSec),
     durationSec |-> NumberOrZero(s.durationSec),
     sentence |-> TrimmedSentence(s.sentence)]

\* s.endSec > s.startSec && s.sentence.length > 0
KeepSegmentInclusive(s) == Le(s.startSec, s.endSec) /\ Len(s.sentence) > 0
KeepSegment(s) == Lt(s.startSec, s.endSec) /\ Len(s.sentence) > 0

RECURSIVE FilterSegments(_)
FilterSegments(segs) ==
    IF segs = <<>> THEN <<>>
    ELSE IF KeepSegment(Head(segs))
         THEN <<Head(segs)>> \o FilterSegments(Tail(segs))
         ELSE FilterSegments(Tail(segs))

\* the segments parseJsonResponse keeps, [] when segments is no array
ParsedSegments(resp) ==
    IF resp.isArray
    THEN FilterSegments([k \in 1..Len(resp.segments) |-> TimedSegment(resp.segments[k])])
    ELSE <<>>

\* parseJsonResponse raises: JSON.parse, a property read on null (the
\* parsed value or an entry of segments), or no segment kept
ParseThrows(resp) ==
    \/ resp.kind # "json"
    \/ resp.isNull
    \/ \E k \in 1..Len(resp.segments) : resp.segments[k].isNull
    \/ Len(ParsedSegments(resp)) = 0

ParseResult(resp) ==
    [returned |-> TRUE,
     totalDurationSec |-> NumberOrZero(resp.total),
     segments |-> ParsedSegments(resp)]

\* the generation request that refers to the uploaded file, and the parse
DirectGenerateRef ==
    /\ dpc = "generateRef"
    /\ dEvents' = Append(dEvents, "generateRef")
    /\ \E resp \in TimedResponses :
          /\ dResp' = resp
          /\ IF resp.kind = "rejected"
             THEN /\ tryErr' = "GenerateFailed"
                  /\ dpc' = AfterTryError("GenerateFailed")
                  /\ UNCHANGED dResult
             ELSE IF ParseThrows(resp)
             THEN /\ tryErr' = "ParseFailed"
                  /\ dpc' = AfterTryError("ParseFailed")
                  /\ UNCHANGED dResult
             ELSE /\ dResult' = ParseResult(resp)
                  /\ dpc' = "returned"
                  /\ UNCHANGED tryErr
    /\ UNCHANGED <<inputVars, pc, err, scenes, extractVars, describeVars, events,
                   scriptVars, denv, attempt, polls, lastState, onlyProcessing, dErr>>

\* the catch block: the request with the inline video bytes, and the
\* parse; what it raises goes to the caller
DirectGenerateInline ==
    /\ dpc = "fallback"
    /\ dEvents' = Append(dEvents, "generateInline")
    /\ \E resp \in TimedResponses :
          /\ dResp' = resp
          /\ IF resp.kind = "rejected"
             THEN dErr' = "GenerateFailed" /\ dpc' = "raised" /\ UNCHANGED dResult
             ELSE IF ParseThrows(resp)
             THEN dErr' = "ParseFailed" /\ dpc' = "raised" /\ UNCHANGED dResult
             ELSE /\ dResult' = ParseResult(resp)
                  /\ dpc' = "returned"
                  /\ UNCHANGED dErr
    /\ UNCHANGED <<inputVars, pc, err, scenes, extractVars, describeVars, events,
                   scriptVars, denv, attempt, polls, lastState, onlyProcessing,
                   tryErr>>

InitDirect ==
    /\ changeAnswer = <<>>
    /\ durationAnswer = <<>>
    /\ interval = 1
    /\ InitRest
    /\ dpc = "start"
    /\ denv \in [key : BOOLEAN, video : BOOLEAN]
    /\ attempt = 0
    /\ polls = 0
    /\ lastState = "none"
    /\ onlyProcessing = TRUE
    /\ tryErr = "none"
    /\ dErr = "none"
    /\ dEvents = <<>>
    /\ dResp = NoTimedResponse
    /\ dResult = NoTimedResult

NextDirect ==
    \/ DirectStart
    \/ DirectUpload
    \/ DirectPoll
    \/ DirectPollTimeout
    \/ DirectGenerateRef
    \/ DirectGenerateInline

SpecDirect == InitDirect /\ [][NextDirect]_vars

(* ===================== properties of segmentation ====================== *)
\* detectSceneChanges has returned its scenes to main
Returned == pc # "detect" /\ err = "none"

\* the candidates as numbers, and those strictly between 0 and T
CandidateValues ==
    LET toks == SplitComma(changeAnswer)
    IN  { parseFloat(Trim(toks[k])) : k \in 1..Len(toks) }

InRangeValues == { c \in CandidateValues : c # NaN /\ 0 < c /\ c < TotalDuration }

SceneBoundaries ==
    { scenes[k].startTime : k \in 1..Len(scenes) }
        \cup { scenes[k].endTime : k \in 1..Len(scenes) }

Intervals == [k \in 1..Len(scenes) |-> <<scenes[k].startTime, scenes[k].endTime>>]

ExampleInput ==
    /\ changeAnswer = <<"5", ",", "5", ",", "2", ",", "3", "0">>
    /\ durationAnswer = <<"3", "0">>

\* C1: the returned scenes are in ascending start order, start at 0, end at
\* the total duration, each scene ends where the next one starts, and every
\* scene has duration = endTime - startTime > 0
C1_ScenesPartition ==
    Returned =>
        /\ Len(scenes) >= 1
        /\ scenes[1].startTime = 0
        /\ scenes[Len(scenes)].endTime = TotalDuration
        /\ \A k \in 1..(Len(scenes) - 1) :
              /\ scenes[k].startTime < scenes[k + 1].startTime
              /\ scenes[k].endTime = scenes[k + 1].startTime
        /\ \A k \in 1..Len(scenes) :
              /\ scenes[k].duration = Sub(scenes[k].endTime, scenes[k].startTime)
              /\ scenes[k].duration # NaN
              /\ scenes[k].duration > 0

C1_Witness ==
    /\ Returned
    /\ Len(scenes) = 4
    /\ changeAnswer = <<"5", ",", "2", ",", " ", "3">>

\* C2: the scene boundaries are exactly 0, the total duration and the
\* candidates strictly between them, each once; "5,5,2,30" with duration 30
\* gives [0,2), [2,5), [5,30)
C2_BoundarySet ==
    Returned =>
        /\ SceneBoundaries = {0, TotalDuration} \cup InRangeValues
        /\ Len(scenes) = Cardinality(InRangeValues) + 1
        /\ ExampleInput => Intervals = << <<0, 2>>, <<2, 5>>, <<5, 30>> >>

C2_Witness == Returned /\ ExampleInput /\ Len(scenes) = 3

\* the scenes that a set of in-range boundaries determines: cut [0, T] at
\* the values of the set in ascending order, keys numbered from 0
RECURSIVE AscendingFrom(_)
AscendingFrom(S) ==
    IF S = {} THEN <<>>
    ELSE LET m == CHOOSE x \in S : \A y \in S : x <= y
         IN  <<m>> \o AscendingFrom(S \ {m})

ScenesOfSet(S, T) ==
    LET b == <<0>> \o AscendingFrom(S) \o <<T>>
    IN  [k \in 1..(Len(b) - 1) |->
            [startTime |-> b[k], endTime |-> b[k + 1],
             duration |-> Sub(b[k + 1], b[k]), framePath |-> <<"scene_", k - 1>>]]

\* C3: the returned scenes, framePath keys included, depend only on the
\* total duration and on the set of in-range candidate values (not on their
\* order or repetition), and the keys of one result are pairwise distinct
C3_SetDetermined ==
    Returned =>
        /\ scenes = ScenesOfSet(InRangeValues, TotalDuration)
        /\ \A j, k \in 1..Len(scenes) :
              j # k => scenes[j].framePath # scenes[k].framePath

C3_Witness ==
    /\ Returned
    /\ changeAnswer = <<"5", ",", "2", ",", "5", ",", "2">>
    /\ Len(scenes) = 3

\* C4: detectSceneChanges fails, returning no scenes, whenever the total
\* duration is not a positive finite number
C4_NonPositiveFiniteFails ==
    (pc # "detect" /\ ~(IsFinite(TotalDuration) /\ TotalDuration > 0)) =>
        (err = "InvalidDuration" /\ scenes = <<>>)

\* C5 as stated: with a valid duration, detectSceneChanges fails with the
\* no-scenes error when every supplied candidate is invalid or out of range
C5_AllInvalidFails ==
    (pc # "detect" /\ ~InvalidDuration(TotalDuration) /\ InRangeValues = {}) =>
        (err = "NoScenes" /\ scenes = <<>>)

\* C5 amended: with an accepted duration T and every candidate invalid or
\* out of range, the whole video is returned as the single scene [0, T);
\* the no-scenes error is never raised
C5_AllInvalidSingleScene ==
    /\ err # "NoScenes"
    /\ (pc # "detect" /\ ~InvalidDuration(TotalDuration) /\ InRangeValues = {}) =>
          /\ err = "none"
          /\ scenes = << [startTime |-> 0, endTime |-> TotalDuration,
                          duration |-> TotalDuration,
                          framePath |-> <<"scene_", 0>>] >>

C5_Witness ==
    /\ Returned
    /\ InRangeValues = {}
    /\ Len(SplitComma(changeAnswer)) >= 2
    /\ Len(scenes) = 1

(* ================= properties of extraction and description ============ *)
CapturesOf(k) == SelectSeq(events, LAMBDA e : e.op = "capture" /\ e.scene = k)

DescribeCalls == SelectSeq(events, LAMBDA e : e.op = "describeScene")

\* describeAllScenes has returned its list to main
DescribeReturned == pc = "script"

C7_CaptureFailureTolerated == ~(pc = "failed" /\ err = "CaptureFailed")

BatchFailed == batch.kind \in {"rejected", "malformed"}

\* C8: after a failed or unparseable batch response, describeScene is called
\* exactly once per scene in ascending order (a failed call is followed by
\* the calls for the remaining scenes), nothing is raised, and the list
\* returned holds the descriptions of the calls that succeeded
C8_FallbackCallsEveryScene ==
    BatchFailed =>
        /\ pc \in {"describeFallback", "script"}
        /\ err = "none"
        /\ Len(DescribeCalls) = (IF DescribeReturned THEN Len(scenes) ELSE dsI)
        /\ \A i \in 1..Len(DescribeCalls) : DescribeCalls[i].scene = i - 1
        /\ LET okCalls == SelectSeq(DescribeCalls, LAMBDA e : e.ok)
           IN  /\ Len(descriptions) = Len(okCalls)
               /\ \A i \in 1..Len(okCalls) :
                     descriptions[i].sceneIndex = okCalls[i].scene

C8_Witness ==
    /\ DescribeReturned
    /\ BatchFailed
    /\ Len(scenes) = 3
    /\ ~DescribeCalls[1].ok
    /\ DescribeCalls[2].ok
    /\ ~DescribeCalls[3].ok
    /\ Len(descriptions) = 1

\* C9 as stated: whenever the batch response parses as JSON, describeScene
\* is never called
C9_JsonMeansNoFallback == batch.kind = "json" => Len(DescribeCalls) = 0

\* the batch response is a JSON array without null entries whose list
\* fields are each an array or absent
BatchWellFormed ==
    /\ batch.kind = "json"
    /\ batch.isArray
    /\ \A k \in 1..Len(batch.items) :
          /\ ~batch.items[k].isNull
          /\ batch.items[k].visualElements \in {"array", "absent"}
          /\ batch.items[k].keyPeople \in {"array", "absent"}
          /\ batch.items[k].specificActions \in {"array", "absent"}

\* C9 amended: when the batch response parses as a JSON array of non-null
\* entries whose visualElements, keyPeople and specificActions are arrays or
\* absent, describeAllScenes returns without calling describeScene
C9_WellFormedMeansNoFallback ==
    BatchWellFormed => (DescribeReturned /\ Len(DescribeCalls) = 0)

C9_Witness ==
    /\ DescribeReturned
    /\ BatchWellFormed
    /\ Len(scenes) = 2
    /\ Len(batch.items) = 2
    /\ batch.items[2].keyPeople = "absent"

\* C10: a list returned by describeAllScenes has exactly one description
\* per scene, the one at position i carrying sceneIndex i
C10_OneDescriptionPerScene ==
    DescribeReturned =>
        /\ Len(descriptions) = Len(scenes)
        /\ \A i \in 1..Len(descriptions) : descriptions[i].sceneIndex = i - 1

(* ====================== properties of the script stage ================= *)
\* C11: every description built by describeAllScenes or describeScene
\* carries the startTime, endTime and duration of the scene at position
\* sceneIndex, whatever the response holds and however long it is
C11_TimingFromScene ==
    \A k \in 1..Len(descriptions) :
        LET d == descriptions[k]
        IN  /\ d.sceneIndex < Len(scenes)
            /\ d.startTime = scenes[d.sceneIndex + 1].startTime
            /\ d.endTime = scenes[d.sceneIndex + 1].endTime
            /\ d.duration = scenes[d.sceneIndex + 1].duration

ScriptRequests ==
    SelectSeq(events, LAMBDA e : e.op \in {"scriptBatch", "scriptGenerate"})

ScriptCalls == SelectSeq(events, LAMBDA e : e.op = "scriptScene")

\* C12: with zero descriptions the script stage issues no generation request
\* and the run does not complete normally; a script fallback in which no
\* per-scene script succeeded returns no CombinedScript
C12_EmptyIsFatal ==
    /\ (pc \in {"scriptFallback", "done"} /\ Len(descriptions) = 0) =>
          (Len(ScriptRequests) = 0 /\ pc # "done")
    /\ (scriptResult.kind = "merged" => Len(scripts) > 0)

\* the sum of estimatedWords over s[1..k], an absent value counting 0
RECURSIVE SumWordsUpTo(_, _)
SumWordsUpTo(s, k) ==
    IF k = 0 THEN 0
    ELSE SumWordsUpTo(s, k - 1)
            + (IF s[k].hasWords THEN s[k].estimatedWords ELSE 0)

RECURSIVE EmphasisUpTo(_, _)
EmphasisUpTo(s, k) ==
    IF k = 0 THEN <<>>
    ELSE EmphasisUpTo(s, k - 1)
            \o (IF s[k].hasEmphasis THEN s[k].emphasis ELSE <<>>)

\* C13: the CombinedScript merged by the fallback is made of exactly the
\* per-scene scripts whose call succeeded: its totalEstimatedWords is the
\* sum of their estimatedWords, its text is their texts in ascending
\* sceneIndex order and its emphasis is their emphasis lists flattened
C13_MergedFromSucceeded ==
    scriptResult.kind = "merged" =>
        LET okCalls == SelectSeq(ScriptCalls, LAMBDA e : e.ok)
        IN  /\ Len(scripts) = Len(okCalls)
            /\ \A k \in 1..Len(scripts) : scripts[k].sceneIndex = okCalls[k].index
            /\ \A j, k \in 1..Len(scripts) :
                  j < k => scripts[j].sceneIndex < scripts[k].sceneIndex
            /\ scriptResult.totalEstimatedWords = SumWordsUpTo(scripts, Len(scripts))
            /\ Len(scriptResult.script) = Len(scripts)
            /\ \A k \in 1..Len(scripts) : scriptResult.script[k] = scripts[k].script
            /\ scriptResult.emphasis = EmphasisUpTo(scripts, Len(scripts))

C13_Witness ==
    /\ scriptResult.kind = "merged"
    /\ Len(descriptions) = 3
    /\ Len(scripts) = 2
    /\ scriptResult.script = <<"c", "b">>
    /\ scriptResult.totalEstimatedWords = 9
    /\ scriptResult.emphasis = <<"e2", "e3">>

\* C14: a batch script response that is rejected, is no JSON or does not
\* match the schema is never returned as the CombinedScript (the fallback
\* runs); after a valid one no per-scene call is made
C14_InvalidBatchFallsBack ==
    /\ (sbatch.kind # "none" /\ ~(sbatch.kind = "json" /\ sbatch.valid)) =>
          (pc = "scriptFallback" \/ scriptResult.kind = "merged")
    /\ (sbatch.kind = "json" /\ sbatch.valid) => Len(ScriptCalls) = 0

(* ==================== properties of the direct pipeline ================ *)
\* the last response was handed to parseJsonResponse, which raised
ParseRaised ==
    \/ (dpc = "fallback" /\ tryErr = "ParseFailed")
    \/ (dpc = "raised" /\ dErr = "ParseFailed")

\* the last response was handed to parseJsonResponse
Parsed == dResp.kind \in {"malformed", "json"}

\* an entry of segments with endSec > startSec and a non-blank sentence
WantedSegment(e) ==
    /\ ~e.isNull
    /\ NumberOrZero(e.startSec) # NaN
    /\ NumberOrZero(e.endSec) # NaN
    /\ NumberOrZero(e.endSec) > NumberOrZero(e.startSec)
    /\ \E k \in 1..Len(e.sentence) : e.sentence[k] # " "

WantedSegments == SelectSeq(dResp.segments, WantedSegment)

SameSegments(res, raw) ==
    /\ Len(res) = Len(raw)
    /\ \A k \in 1..Len(raw) :
          /\ res[k].startSec = NumberOrZero(raw[k].startSec)
          /\ res[k].endSec = NumberOrZero(raw[k].endSec)
          /\ res[k].sentence = Trim(raw[k].sentence)

\* C15 as stated: parseJsonResponse returns exactly the entries of segments
\* with endSec > startSec and a non-blank sentence, in order, every other
\* entry discarded; it raises when none is left or segments is no array
C15_KeepsExactlyWanted ==
    Parsed =>
        IF dResp.kind = "json" /\ ~dResp.isNull /\ Len(WantedSegments) > 0
        THEN /\ dpc = "returned"
             /\ SameSegments(dResult.segments, WantedSegments)
        ELSE ParseRaised

HasNullSegment == \E k \in 1..Len(dResp.segments) : dResp.segments[k].isNull

\* C15 amended: as stated when no entry of segments is null; a null entry
\* in segments makes parseJsonResponse raise whatever the other entries are
C15_KeepsWantedUnlessNull ==
    Parsed =>
        IF /\ dResp.kind = "json"
           /\ ~dResp.isNull
           /\ ~HasNullSegment
           /\ Len(WantedSegments) > 0
        THEN /\ dpc = "returned"
             /\ SameSegments(dResult.segments, WantedSegments)
        ELSE ParseRaised

C15_Witness ==
    /\ dpc = "returned"
    /\ Len(dResp.segments) = 2
    /\ dResp.segments[1] = RawSegment(3, 3, 0, <<"d">>)
    /\ dResp.segments[2] = RawSegment(2, 5, 3, <<"b", " ">>)
    /\ Len(dResult.segments) = 1
    /\ dResult.segments[1].sentence = <<"b">>

\* C16: the segments of a returned TimedScriptResult are in time order
\* without overlap, each with endSec > startSec and
\* durationSec = endSec - startSec
C16_SegmentsConsistent ==
    dResult.returned =>
        /\ \A k \in 1..Len(dResult.segments) :
              /\ dResult.segments[k].endSec > dResult.segments[k].startSec
              /\ dResult.segments[k].durationSec
                    = dResult.segments[k].endSec - dResult.segments[k].startSec
        /\ \A k \in 1..(Len(dResult.segments) - 1) :
              dResult.segments[k].endSec <= dResult.segments[k + 1].startSec

\* waitUntilFileReady is over: it returned, or it raised
WaitReturned == dpc \in {"generateRef", "returned"} \/ tryErr \in {"GenerateFailed", "ParseFailed"}
WaitRaised == tryErr \in {"ProcessingFailed", "Timeout", "PollRejected"}

\* C17: waitUntilFileReady issues at most 60 status queries; it has returned
\* once a query reports ACTIVE, has raised the processing error once a query
\* reports FAILED, and raises the timeout after exactly 60 queries, which
\* it does when all 60 report PROCESSING
C17_BoundedPolling ==
    /\ polls <= maxAttempts
    /\ attempt <= maxAttempts
    /\ lastState = "ACTIVE" => WaitReturned
    /\ lastState = "FAILED" => tryErr = "ProcessingFailed"
    /\ tryErr = "Timeout" => (polls = maxAttempts /\ attempt = maxAttempts)
    /\ (polls = maxAttempts /\ onlyProcessing /\ tryErr # "PollRejected") =>
          (tryErr = "Timeout" \/ (dpc = "poll" /\ attempt = maxAttempts))
    /\ (dpc = "poll" /\ attempt = maxAttempts) => ENABLED DirectPollTimeout

C17_Witness ==
    /\ tryErr = "Timeout"
    /\ polls = maxAttempts
    /\ onlyProcessing
    /\ dpc = "fallback"

\* C18 as stated: a status query without state or with an unknown state
\* value makes waitUntilFileReady return; only PROCESSING is followed by
\* another query
C18_UnknownIsReady ==
    /\ lastState \in {"absent", "OTHER"} => WaitReturned
    /\ (dpc = "poll" /\ polls > 0) => lastState = "PROCESSING"

\* C18 amended: a status query without state makes waitUntilFileReady
\* return at once; every state value other than ACTIVE and FAILED,
\* PROCESSING or not, is followed by the delay and another query (or by the
\* timeout when the attempts are used up)
C18_AbsentIsReady ==
    /\ lastState = "absent" => WaitReturned
    /\ (dpc = "poll" /\ polls > 0) => lastState \in {"PROCESSING", "OTHER"}
    /\ lastState \in {"PROCESSING", "OTHER"} => (dpc = "poll" \/ WaitRaised)

C18_Witness ==
    /\ lastState = "absent"
    /\ polls = 3
    /\ ~onlyProcessing
    /\ dpc = "generateRef"

CountOf(op) == Len(SelectSeq(dEvents, LAMBDA e : e = op))

\* C19: after a failed upload, incomplete upload metadata, or polling that
\* ends in failure or timeout, no reference request is made and exactly one
\* request with the inline bytes follows; when that request or its parse
\* fails, the error goes to the caller and nothing more is requested
C19_SingleInlineFallback ==
    tryErr \in {"UploadFailed", "UploadIncomplete", "ProcessingFailed",
                "Timeout", "PollRejected"} =>
        /\ CountOf("generateRef") = 0
        /\ CountOf("upload") = 1
        /\ IF dpc = "fallback"
           THEN CountOf("generateInline") = 0 /\ ENABLED DirectGenerateInline
           ELSE /\ CountOf("generateInline") = 1
                /\ dpc \in {"returned", "raised"}
                /\ dpc = "raised" <=> dErr \in {"GenerateFailed", "ParseFailed"}
                /\ dpc = "raised" => dResp.kind = "rejected" \/ ParseThrows(dResp)
                /\ ~ENABLED NextDirect

C19_Witness ==
    /\ tryErr = "Timeout"
    /\ dpc = "raised"
    /\ dErr = "ParseFailed"
    /\ CountOf("generateInline") = 1

DescribeOps == {"generate", "describeScene"}
ScriptOps == {"scriptBatch", "scriptScene", "scriptGenerate"}
GenerationOps == {"generate", "scriptBatch", "scriptGenerate"}

ExtractStage == {"extract", "extractInner"}
DescribeStage == {"describe", "describeFallback"}
ScriptStage == {"script", "scriptFallback", "done"}

SceneRequest(e) ==
    \/ e.op = "generate" /\ e.scene >= 0
    \/ e.op = "scriptGenerate"

\* C21: between two consecutive per-scene generation requests of the same
\* fallback loop the fixed delay has elapsed, whether the earlier request
\* succeeded or failed
C21_DelayBetweenRequests ==
    \A i \in 1..Len(events) : \A j \in i + 1..Len(events) :
        (/\ SceneRequest(events[i])
         /\ SceneRequest(events[j])
         /\ events[i].op = events[j].op) =>
            \E k \in i + 1..j - 1 : events[k].op = "sleep"

\* the indices of the expected frame files of a scene that exist
ExpectedExisting(scene) ==
    { j \in 0..FrameCount(scene, interval) - 1 : <<scene.framePath, j>> \in files }

\* frames lists exactly the members of S, ascending
ExactlyInOrder(frames, S) ==
    /\ Len(frames) = Cardinality(S)
    /\ \A k \in 1..Len(frames) : frames[k] \in S
    /\ \A k \in 1..Len(frames) - 1 : frames[k] < frames[k + 1]

RECURSIVE ExistingTotal(_)
ExistingTotal(k) ==
    IF k = 0 THEN 0
    ELSE ExistingTotal(k - 1) + Cardinality(ExpectedExisting(scenes[k]))

\* C22: describeScene raises without a generation request exactly when no
\* expected frame file of the scene exists, and otherwise its request
\* carries exactly the existing frames in index order; the batch request of
\* describeAllScenes is issued with one header per scene and the existing
\* frames only, whether or not some scene has no frame at all
C22_NoFramesExactly ==
    /\ \A k \in 1..Len(events) :
          events[k].op = "describeScene" =>
              LET e == events[k]
                  S == ExpectedExisting(scenes[e.scene + 1])
                  followed == /\ k < Len(events)
                              /\ events[k + 1].op = "generate"
                              /\ events[k + 1].scene = e.scene
              IN  IF S = {}
                  THEN ~e.ok /\ ~followed
                  ELSE followed /\ ExactlyInOrder(events[k + 1].frames, S)
    /\ \A k \in 1..Len(events) :
          (events[k].op = "generate" /\ events[k].scene >= 0) =>
              k > 1 /\ events[k - 1].op = "describeScene"
    /\ pc \in (DescribeStage \ {"describe"}) \cup ScriptStage =>
          \E k \in 1..Len(events) :
              /\ events[k].op = "generate"
              /\ events[k].scene = -1
              /\ events[k].index = Len(scenes)
              /\ Len(events[k].frames) = ExistingTotal(Len(scenes))

C22_Witness ==
    /\ Len(scenes) = 2
    /\ ExpectedExisting(scenes[1]) = {}
    /\ ExpectedExisting(scenes[2]) = {1}
    /\ FrameCount(scenes[2], interval) = 2
    /\ \E i, j, k \in 1..Len(events) :
          /\ events[i].op = "generate" /\ events[i].scene = -1
          /\ events[j].op = "describeScene" /\ events[j].scene = 0 /\ ~events[j].ok
          /\ events[k].op = "generate" /\ events[k].scene = 1
          /\ events[k].frames = <<1>>

\* the calls of generateScriptForScene so far, and the number of them that
\* returned a script among the first n
RECURSIVE SucceededAmong(_, _)
SucceededAmong(calls, n) ==
    IF n = 0 THEN 0
    ELSE SucceededAmong(calls, n - 1) + (IF calls[n].ok THEN 1 ELSE 0)

\* C23: the continuity context of the latest per-scene call that got to
\* build it holds exactly the last min(2, m) of the m scripts returned by
\* the calls before it, in generation order: at most 2 scripts, each one
\* pushed by a call that succeeded
C23_ContextLastTwo ==
    (pc = "scriptFallback" /\ gsI > 0 /\ gsI <= Len(scenes)) =>
        LET calls == ScriptCalls
            m == SucceededAmong(calls, Len(calls) - 1)
            n == IF m < 2 THEN m ELSE 2
        IN  /\ Len(calls) = gsI
            /\ Len(context) = n
            /\ Len(context) <= 2
            /\ m <= Len(scripts)
            /\ \A k \in 1..n : context[k] = scripts[m - n + k]

C23_Witness ==
    /\ pc = "scriptFallback"
    /\ gsI = 4
    /\ Len(scripts) = 3
    /\ Len(context) = 2
    /\ context[1].sceneIndex = 1
    /\ context[2].sceneIndex = 2
    /\ ~ScriptCalls[4].ok

\* the number of generateScriptForScene calls that returned among the
\* first p entries of the history
RECURSIVE ReturnedUpTo(_)
ReturnedUpTo(p) ==
    IF p = 0 THEN 0
    ELSE ReturnedUpTo(p - 1)
            + (IF events[p].op = "scriptScene" /\ events[p].ok THEN 1 ELSE 0)

\* estimatedWords exceeds 2.5 x duration
ExceedsCeiling(script) ==
    script.hasWords /\ 10 * script.estimatedWords > 25 * script.duration

\* C24: in the script fallback a returned script is flagged with a warning
\* exactly when its estimatedWords exceeds 2.5 x duration; flagged or not
\* it is kept, its text is in the merged script and its estimatedWords is
\* part of totalEstimatedWords
C24_FlaggedButKept ==
    /\ \A p \in 1..Len(events) :
          (events[p].op = "scriptScene" /\ events[p].ok) =>
              /\ p + 2 <= Len(events)
              /\ ReturnedUpTo(p) <= Len(scripts)
              /\ pc = "scriptFallback" =>
                    (events[p + 2].op = "warn"
                        <=> ExceedsCeiling(scripts[ReturnedUpTo(p)]))
    /\ \A p \in 1..Len(events) :
          events[p].op = "warn" =>
              p > 2 /\ events[p - 2].op = "scriptScene" /\ events[p - 2].ok
    /\ scriptResult.kind = "merged" =>
          /\ Len(scripts) = ReturnedUpTo(Len(events))
          /\ Len(scriptResult.script) = Len(scripts)
          /\ \A k \in 1..Len(scripts) :
                ExceedsCeiling(scripts[k]) =>
                    /\ scriptResult.script[k] = scripts[k].script
                    /\ scriptResult.totalEstimatedWords >= scripts[k].estimatedWords
          /\ scriptResult.totalEstimatedWords = SumWordsUpTo(scripts, Len(scripts))

C24_Witness ==
    /\ scriptResult.kind = "merged"
    /\ Len(scripts) = 2
    /\ ExceedsCeiling(scripts[1])
    /\ ~ExceedsCeiling(scripts[2])
    /\ scripts[2].hasWords
    /\ scriptResult.totalEstimatedWords = 11
    /\ Len(SelectSeq(events, LAMBDA e : e.op = "warn")) = 1

\* C25: generateAllScripts pairs every description with the scene at
\* position description.sceneIndex, in the headers of its batch request
\* and in the calls of its per-scene fallback
C25_PairedBySceneIndex ==
    /\ \A k \in 1..Len(pairs) : pairs[k][1] = pairs[k][2]
    /\ \A p \in 1..Len(events) :
          events[p].op = "scriptScene" => events[p].scene = events[p].index

\* C26: a run of generateTimedScriptFromVideo issues at most two generation
\* requests, the inline one only after the upload or the polling failed;
\* when the reference request or the parse of its response fails, the error
\* goes to the caller and no inline request is made
C26_InlineOnlyAfterUploadOrPoll ==
    /\ CountOf("generateRef") + CountOf("generateInline") <= 2
    /\ CountOf("generateInline") > 0 =>
          tryErr \in {"UploadFailed", "UploadIncomplete", "ProcessingFailed",
                      "Timeout", "PollRejected"}
    /\ tryErr \in {"GenerateFailed", "ParseFailed"} =>
          /\ dpc = "raised"
          /\ CountOf("generateInline") = 0
====
